---------------------------- MODULE Spec2Model ----------------------------
(***************************************************************************)
(* hrtracker-suite: the pull-based pipeline                                *)
(*   source -> HRTrackerData -> HRTrackerFilter / HRTrackerIdentityTransform*)
(*          -> PnnSgtLogfile | HRTrackerSplitter                           *)
(* Every Python generator is a frame with a position (pc); one action is   *)
(* one next() of the outermost consumer, run down the chain to the next    *)
(* yield, StopIteration or exception.                                      *)
(***************************************************************************)
EXTENDS Integers, Sequences, FiniteSets, TLC

\* top: the stage the terminal consumer drives -- "encoder", "splitter",
\* "merger", "heart_points" or "decoder".
VARIABLES src, data, wrap, enc, split, merge, hp, dec, top

vars == <<src, data, wrap, enc, split, merge, hp, dec, top>>

(***************************************************************************)
(* Bounds of the model.                                                    *)
(***************************************************************************)
MaxLen == 2        \* longest source sequence
MaxTs == 2         \* largest timestamp (seconds)
MaxSplit == 2      \* largest split_at
MaxRewrapLen == 1  \* longest source sequence of a stream assigned later
MaxSplitLen == 3   \* longest source sequence given to a splitter

HeartRates == {60, 100}
Samples == [ts : 0..MaxTs, hr : HeartRates]

RECURSIVE SeqsUpTo(_, _)
SeqsUpTo(S, n) ==
    IF n = 0 THEN {<<>>}
    ELSE LET shorter == SeqsUpTo(S, n - 1)
         IN  shorter \cup {Append(s, x) : s \in {t \in shorter : Len(t) = n - 1}, x \in S}

Streams == SeqsUpTo(Samples, MaxLen)

(***************************************************************************)
(* Python values: None, an int, a str (a sequence of characters).          *)
(***************************************************************************)
None == [kind |-> "none", v |-> 0, s |-> <<>>]
PyInt(n) == [kind |-> "int", v |-> n, s |-> <<>>]
PyStr(chars) == [kind |-> "str", v |-> 0, s |-> chars]

\* Python truth value of None, an int, a str.
Truthy(val) ==
    CASE val.kind = "none" -> FALSE
      [] val.kind = "int" -> val.v # 0
      [] val.kind = "str" -> val.s # <<>>

\* The outcome of a getter: the value, or LookupError(f'{name} not ready').
Returned(val) == [ok |-> TRUE, val |-> val, err |-> ""]
LookupError(name) == [ok |-> FALSE, val |-> None, err |-> name]

deferred_value(name, val) ==
    IF Truthy(val) THEN Returned(val) ELSE LookupError(name)

\* try_get_value(obj, name, default), given the outcome of getattr(obj, name).
try_get_value(got, default) == IF got.ok THEN got.val ELSE default

(***************************************************************************)
(* str(int) and the f-strings of the encoder.                              *)
(***************************************************************************)
DigitChars == <<"0", "1", "2", "3", "4", "5", "6", "7", "8", "9">>

RECURSIVE NatStr(_)
NatStr(n) ==
    IF n < 10 THEN <<DigitChars[n + 1]>>
    ELSE NatStr(n \div 10) \o <<DigitChars[(n % 10) + 1]>>

IntStr(n) == IF n < 0 THEN <<"-">> \o NatStr(-n) ELSE NatStr(n)

(***************************************************************************)
(* HRTrackerData (lib/types.py).  The object and the generator frame of    *)
(* its __iter__ are one record:                                            *)
(*   points  _points: [kind: "none" | "gen" | "list", items]; of a         *)
(*           generator, items is what it has not produced yet              *)
(*   cals, start, end   _cals, _start, _end                                *)
(*   pc      frame: "none" (no frame), "new" (created, body not entered),  *)
(*           "susp" (suspended at the yield), "done" (returned),           *)
(*           "raised" (ended by LookupError), "closed" (finalised at the   *)
(*           yield by a consumer that abandoned it)                        *)
(*   lstart, lend, cur, idx   the locals start, end, point and the         *)
(*           position of the for loop in a list                            *)
(*   ys      history: the Samples this frame has yielded                   *)
(*   ndone   history: iterations that ran to completion                    *)
(*   after   history: the frame was created after a completed iteration    *)
(*   backing history: what __init__ was given, "gen" or "list"              *)
(***************************************************************************)
NoDatum == [ts |-> 0, hr |-> 0]
NoPoints == [kind |-> "none", items |-> <<>>]
Generator(items) == [kind |-> "gen", items |-> items]
List(items) == [kind |-> "list", items |-> items]

\* __init__(iterable, cals): _reset_times() leaves _start and _end None.
HRTrackerData(iterable, cals) ==
    [points |-> iterable, cals |-> cals, start |-> None, end |-> None,
     pc |-> "none", lstart |-> None, lend |-> None, cur |-> NoDatum, idx |-> 0,
     ys |-> <<>>, ndone |-> 0, after |-> FALSE, backing |-> iterable.kind]

\* bool(self._points): a generator object is true, a list is true when non-empty.
PointsTruthy(points) ==
    CASE points.kind = "none" -> FALSE
      [] points.kind = "gen" -> TRUE
      [] points.kind = "list" -> points.items # <<>>

\* iter(d): a new generator frame; no line of the body has run.
DataIter(d) ==
    [d EXCEPT !.pc = "new", !.lstart = None, !.lend = None, !.cur = NoDatum,
              !.idx = 0, !.ys = <<>>, !.after = (d.ndone > 0)]

HasNextPoint(d) ==
    IF d.points.kind = "list" THEN d.idx < Len(d.points.items)
    ELSE d.points.items # <<>>

NextPoint(d) ==
    IF d.points.kind = "list" THEN d.points.items[d.idx + 1]
    ELSE Head(d.points.items)

\* _reset_generator()
ResetGeneratorKept(points) == points

ResetGenerator(points) == NoPoints

\* _start while the loop runs: the loop body assigns the local start only.
StartDuringLoopEager(d) == d.lstart

StartDuringLoop(d) == d.start

\* The for loop asks its iterator for the next point: the body up to the yield,
\* or, at the end of the input, the three statements after the loop.
DataPull(d) ==
    IF HasNextPoint(d)
    THEN LET point == NextPoint(d)
             d1 == [d EXCEPT
                      !.lstart = IF ~Truthy(d.lstart) THEN PyInt(point.ts) ELSE d.lstart,
                      !.cur = point,
                      !.pc = "susp",
                      !.idx = IF d.points.kind = "list" THEN d.idx + 1 ELSE d.idx,
                      !.points = IF d.points.kind = "gen"
                                 THEN Generator(Tail(d.points.items))
                                 ELSE d.points,
                      !.ys = Append(d.ys, point)]
         IN  [d |-> [d1 EXCEPT !.start = StartDuringLoop(d1)], res |-> "yield", item |-> point]
    ELSE [d |-> [d EXCEPT !.start = d.lstart, !.end = d.lend,
                          !.points = ResetGenerator(d.points),
                          !.pc = "done", !.cur = NoDatum, !.ndone = 1],
          res |-> "stop", item |-> NoDatum]

\* next() on the frame of HRTrackerData.__iter__.
DataNext(d) ==
    CASE d.pc = "new" ->
           IF PointsTruthy(d.points) THEN DataPull(d)
           ELSE \* return deferred_value('points', None) raises inside the generator
                [d |-> [d EXCEPT !.pc = "raised"], res |-> "raise", item |-> NoDatum]
      [] d.pc = "susp" -> DataPull([d EXCEPT !.lend = PyInt(d.cur.ts)])
      [] OTHER -> [d |-> d, res |-> "stop", item |-> NoDatum]

\* The properties start_time, end_time, cals and the cals setter.
DataGet(d, name) ==
    CASE name = "start_time" -> deferred_value("start_time", d.start)
      [] name = "end_time" -> deferred_value("end_time", d.end)
      [] name = "cals" -> deferred_value("cals", d.cals)

DataSetCalsTo(d, val) == [d EXCEPT !.cals = val]

(***************************************************************************)
(* HRTrackerFilter and HRTrackerIdentityTransform (lib/transformers.py).   *)
(*   kind    "filter" | "identity"                                         *)
(*   hr_min, hr_max   the bounds of a filter (unused by an identity)       *)
(*   own     the instance attributes __setattr__ stored on the wrapper     *)
(*           itself, by name (the wrapper's __dict__ besides _tracker,     *)
(*           _hr_min, _hr_max)                                             *)
(*   pc      frame of __iter__: "none", "new", "run", "done", "raised"     *)
(*   ys      history: the Samples this frame has yielded                   *)
(*   written history: the value last assigned to cals through the wrapper  *)
(***************************************************************************)
AttrNames == {"start_time", "end_time", "cals"}
NoAttrs == [n \in {} |-> None]

HRTrackerFilter(hr_min, hr_max) ==
    [kind |-> "filter", hr_min |-> hr_min, hr_max |-> hr_max, own |-> NoAttrs,
     pc |-> "none", ys |-> <<>>, written |-> None]

HRTrackerIdentityTransform ==
    [kind |-> "identity", hr_min |-> 0, hr_max |-> 0, own |-> NoAttrs,
     pc |-> "none", ys |-> <<>>, written |-> None]

\* The test of HRTrackerFilter.__iter__; an identity yields every datum.
AcceptsExclusive(w, datum) ==
    w.kind = "filter" => (datum.hr > w.hr_min /\ datum.hr < w.hr_max)

Accepts(w, datum) ==
    w.kind = "filter" => (datum.hr >= w.hr_min /\ datum.hr <= w.hr_max)

WrapIter(w) == [w EXCEPT !.pc = "new", !.ys = <<>>]

\* for datum in self._tracker: ask the tracker until a datum passes the test.
RECURSIVE WrapLoop(_, _)
WrapLoop(w, d) ==
    LET r == DataNext(d)
    IN  CASE r.res = "yield" ->
               IF Accepts(w, r.item)
               THEN [w |-> [w EXCEPT !.pc = "run", !.ys = Append(w.ys, r.item)],
                     d |-> r.d, res |-> "yield", item |-> r.item]
               ELSE WrapLoop(w, r.d)
          [] r.res = "stop" ->
               [w |-> [w EXCEPT !.pc = "done"], d |-> r.d, res |-> "stop", item |-> NoDatum]
          [] r.res = "raise" ->
               [w |-> [w EXCEPT !.pc = "raised"], d |-> r.d, res |-> "raise", item |-> NoDatum]

\* next() on the frame of the wrapper's __iter__; the first next() enters the
\* for statement, which calls iter() on the tracker.
WrapNext(w, d) ==
    CASE w.pc = "new" -> WrapLoop(w, DataIter(d))
      [] w.pc = "run" -> WrapLoop(w, d)
      [] OTHER -> [w |-> w, d |-> d, res |-> "stop", item |-> NoDatum]

\* The names __setattr__ hands to the tracker.
ProxiedNamesWithoutCals == {"points"}

ProxiedNames == {"points", "cals"}

\* getattr(wrapper, name): an instance attribute is found first; __getattr__
\* runs only when the normal lookup fails, and asks the tracker.
WrapGet(w, d, name) ==
    IF name \in DOMAIN w.own THEN Returned(w.own[name]) ELSE DataGet(d, name)

\* wrapper.cals = val
WrapSetCalsTo(w, d, val) ==
    IF "cals" \in ProxiedNames
    THEN [w |-> [w EXCEPT !.written = val], d |-> DataSetCalsTo(d, val)]
    ELSE IF w.kind = "filter"
         THEN \* super.__setattr__(self, name, value): stored on the filter
              [w |-> [w EXCEPT !.written = val,
                               !.own = [n \in DOMAIN w.own \cup {"cals"} |->
                                          IF n = "cals" THEN val ELSE w.own[n]]],
               d |-> d]
         ELSE \* raise AttributeError()
              [w |-> [w EXCEPT !.written = val], d |-> d]

(***************************************************************************)
(* PnnSgtLogfile (lib/consumers.py).                                       *)
(*   tracker   _tracker is set (the wrapper over the HRTrackerData)        *)
(*   start, elapsed, cals, filename   _start, _elapsed, _cals, _filename   *)
(*   pc        frame of __iter__: "none", "new", "susp", "done", "raised"  *)
(*   has_pt    the local has_pt                                            *)
(*   lines     history: the lines this frame has yielded                   *)
(*   drained   history: "no", or what the for loop over the present        *)
(*             tracker had produced when it ran to its end: "empty",       *)
(*             "points"                                                    *)
(*   rewrapped history: tracker has been assigned since __init__           *)
(***************************************************************************)
PnnSgtLogfile ==
    [tracker |-> TRUE, start |-> None, elapsed |-> None, cals |-> None,
     filename |-> None, pc |-> "none", has_pt |-> FALSE, lines |-> <<>>,
     drained |-> "no", rewrapped |-> FALSE]

\* f'{point[0]}000;;Heart rate;{point[1]}\n'
Line(point) ==
    IntStr(point.ts) \o <<"0", "0", "0", ";", ";", "Heart rate", ";">>
        \o IntStr(point.hr) \o <<"\n">>

\* f'#date={start}000#' + f'time={elapsed}000#' + f'calories={cals}#'
\*   + 'type=HeartRate#spmax=0#version=4.txt'
Filename(start, elapsed, cals) ==
    <<"#date=">> \o IntStr(start) \o <<"0", "0", "0", "#", "time=">>
        \o IntStr(elapsed) \o <<"0", "0", "0", "#", "calories=">>
        \o IntStr(cals) \o <<"#", "type=HeartRate#spmax=0#version=4.txt">>

EncIter(e) == [e EXCEPT !.pc = "new", !.has_pt = FALSE, !.lines = <<>>]

\* The statements under `if has_pt:`; each read of the tracker can raise
\* LookupError, which ends the generator with the earlier assignments made.
EncFinish(e, w, d) ==
    LET st == WrapGet(w, d, "start_time")
        e1 == [e EXCEPT !.start = st.val]
        en == WrapGet(w, d, "end_time")
        e2 == [e1 EXCEPT !.elapsed = PyInt(en.val.v - e1.start.v)]
        c  == WrapGet(w, d, "cals")
        e3 == [e2 EXCEPT !.cals = PyInt(c.val.v)]
        e4 == [e3 EXCEPT !.filename =
                 PyStr(Filename(e3.start.v, e3.elapsed.v, e3.cals.v))]
    IN  CASE ~st.ok -> [e EXCEPT !.pc = "raised"]
          [] st.ok /\ ~en.ok -> [e1 EXCEPT !.pc = "raised"]
          [] st.ok /\ en.ok /\ ~c.ok -> [e2 EXCEPT !.pc = "raised"]
          [] OTHER -> [e4 EXCEPT !.pc = "done"]

\* The body of the for loop and what follows it, r being what the tracker
\* answered.
EncStep(e, r) ==
    CASE r.res = "yield" ->
           [e |-> [e EXCEPT !.pc = "susp", !.has_pt = TRUE,
                            !.lines = Append(e.lines, Line(r.item))],
            w |-> r.w, d |-> r.d, res |-> "yield"]
      [] r.res = "raise" ->
           [e |-> [e EXCEPT !.pc = "raised"], w |-> r.w, d |-> r.d, res |-> "raise"]
      [] r.res = "stop" ->
           LET e0 == [e EXCEPT !.drained = IF e.has_pt THEN "points" ELSE "empty"]
               e1 == IF e.has_pt THEN EncFinish(e0, r.w, r.d)
                     ELSE [e0 EXCEPT !.pc = "done"]
           IN  [e |-> e1, w |-> r.w, d |-> r.d,
                res |-> IF e1.pc = "done" THEN "stop" ELSE "raise"]

\* for point in self._tracker: one request for the next point.
EncLoop(e, w, d) == EncStep(e, WrapNext(w, d))

\* next() on the frame of PnnSgtLogfile.__iter__.
EncNext(e, w, d) ==
    CASE e.pc = "new" ->
           IF e.tracker THEN EncLoop(e, WrapIter(w), d)
           ELSE [e |-> [e EXCEPT !.pc = "raised"], w |-> w, d |-> d, res |-> "raise"]
      [] e.pc = "susp" -> EncLoop(e, w, d)
      [] OTHER -> [e |-> e, w |-> w, d |-> d, res |-> "stop"]

\* _reset_vals()
ResetVals(e) == [e EXCEPT !.start = None, !.elapsed = None, !.filename = None]

\* The tracker setter: self._tracker = generator; self._reset_vals()
EncSetTracker(e) ==
    [ResetVals(e) EXCEPT !.tracker = TRUE, !.pc = "none", !.has_pt = FALSE,
                         !.lines = <<>>, !.drained = "no", !.rewrapped = TRUE]

\* The properties start_time, elapsed_time, cals, filename.
EncGet(e, name) ==
    CASE name = "start_time" -> deferred_value("start_time", e.start)
      [] name = "elapsed_time" -> deferred_value("elapsed_time", e.elapsed)
      [] name = "cals" -> deferred_value("cals", e.cals)
      [] name = "filename" -> deferred_value("filename", e.filename)

EncNames == {"start_time", "elapsed_time", "cals", "filename"}

(***************************************************************************)
(* HRTrackerSplitter (lib/transformers.py).                                *)
(*   split_at   _split_at                                                  *)
(*   pc         frame of __iter__: "none", "new", "susp" (at the yield in  *)
(*              the loop), "last" (at the yield after the loop), "done",   *)
(*              "raised"                                                   *)
(*   buf, start_t, cur   the locals buf, start_t, datum                    *)
(*   chunks     history: the HRTrackerData objects this frame has yielded  *)
(***************************************************************************)
DefaultSplitAt == 3600

HRTrackerSplitter(split_at) ==
    [split_at |-> split_at, pc |-> "none", buf |-> <<>>, start_t |-> None,
     cur |-> NoDatum, chunks |-> <<>>]

SplitIter(sp) ==
    [sp EXCEPT !.pc = "new", !.buf = <<>>, !.start_t = None, !.cur = NoDatum,
               !.chunks = <<>>]

\* yield HRTrackerData(buf, 1)
YieldChunk(sp, pc, datum) ==
    [sp EXCEPT !.pc = pc, !.cur = datum,
               !.chunks = Append(sp.chunks, HRTrackerData(List(sp.buf), PyInt(1)))]

\* for datum in self._tracker: up to the next yield.
RECURSIVE SplitLoop(_, _, _)
\* The body of the for loop and what follows it, r being what the tracker
\* answered.
SplitStep(sp, r) ==
    CASE r.res = "yield" ->
           LET start_t == IF ~Truthy(sp.start_t) THEN PyInt(r.item.ts)
                          ELSE sp.start_t
               sp1 == [sp EXCEPT !.start_t = start_t]
           IN  IF r.item.ts >= start_t.v + sp.split_at
               THEN [sp |-> YieldChunk(sp1, "susp", r.item), w |-> r.w, d |-> r.d]
               ELSE SplitLoop([sp1 EXCEPT !.buf = Append(sp.buf, r.item)], r.w, r.d)
      [] r.res = "stop" ->
           [sp |-> YieldChunk(sp, "last", NoDatum), w |-> r.w, d |-> r.d]
      [] r.res = "raise" ->
           [sp |-> [sp EXCEPT !.pc = "raised"], w |-> r.w, d |-> r.d]

SplitLoop(sp, w, d) == SplitStep(sp, WrapNext(w, d))

\* After the yield in the loop: start_t = datum[0]; buf = []; buf.append(datum)
ResumeAfterChunkDropping(sp) ==
    [sp EXCEPT !.start_t = PyInt(sp.cur.ts), !.buf = <<>>, !.cur = NoDatum]

ResumeAfterChunk(sp) ==
    [sp EXCEPT !.start_t = PyInt(sp.cur.ts), !.buf = <<sp.cur>>, !.cur = NoDatum]

\* next() on the frame of HRTrackerSplitter.__iter__.
SplitNext(sp, w, d) ==
    CASE sp.pc = "new" -> SplitLoop(sp, WrapIter(w), d)
      [] sp.pc = "susp" -> SplitLoop(ResumeAfterChunk(sp), w, d)
      [] sp.pc = "last" -> [sp |-> [sp EXCEPT !.pc = "done"], w |-> w, d |-> d]
      [] OTHER -> [sp |-> sp, w |-> w, d |-> d]

\* Iterating a stream to the end: the stream after its last next().
RECURSIVE Drain(_)
Drain(d) ==
    LET r == DataNext(d)
    IN  IF r.res = "yield" THEN Drain(r.d) ELSE r.d

\* The Samples a consumer gets from iterating a chunk.
ChunkSamples(chunk) == Drain(DataIter(chunk)).ys

(***************************************************************************)
(* HRTrackerMerger (lib/transformers.py): an identity wrapper over an      *)
(* HRTrackerData whose _points is itertools.chain of the trackers.  The chain   *)
(* object:                                                                 *)
(*   ins    the trackers, in argument order (each with its frame)          *)
(*   k      the argument chain is at                                       *)
(*   fresh  chain has not called iter() on argument k yet                  *)
(*   srcs   history: the Samples each tracker was built over               *)
(*   again  history: the merged stream has been asked for a second         *)
(*          iterator                                                       *)
(***************************************************************************)
NoChain == [ins |-> <<>>, k |-> 1, fresh |-> TRUE, srcs |-> <<>>, again |-> FALSE]

\* A chain that asks its first argument for a Sample when it is built.
ChainTaking(trackers) ==
    [ins |-> [i \in 1..Len(trackers) |->
                IF i = 1 THEN DataNext(DataIter(trackers[i])).d ELSE trackers[i]],
     k |-> 1, fresh |-> FALSE,
     srcs |-> [i \in 1..Len(trackers) |-> trackers[i].points.items],
     again |-> FALSE]

\* chain of the trackers
Chain(trackers) ==
    [ins |-> trackers, k |-> 1, fresh |-> TRUE,
     srcs |-> [i \in 1..Len(trackers) |-> trackers[i].points.items],
     again |-> FALSE]

\* The HRTrackerData of a merger: its _points is the chain object, which is
\* true; the Samples are held by the chain.
MergedData == HRTrackerData(Generator(<<>>), None)

\* The argument chain turns to when argument k is exhausted.
AfterExhaustedStopping(ch) == Len(ch.ins) + 1

AfterExhausted(ch) == ch.k + 1

\* next() on the chain object: the next Sample of the present argument, or of
\* the first later argument that has one.  An exception of an argument's
\* iterator passes through chain, which stays at that argument.
RECURSIVE ChainNext(_)
ChainNext(ch) ==
    IF ch.k > Len(ch.ins)
    THEN [ch |-> ch, res |-> "stop", item |-> NoDatum]
    ELSE LET d == IF ch.fresh THEN DataIter(ch.ins[ch.k]) ELSE ch.ins[ch.k]
             r == DataNext(d)
             ch1 == [ch EXCEPT !.ins[ch.k] = r.d, !.fresh = FALSE]
         IN  CASE r.res = "yield" -> [ch |-> ch1, res |-> "yield", item |-> r.item]
               [] r.res = "raise" -> [ch |-> ch1, res |-> "raise", item |-> NoDatum]
               [] r.res = "stop" ->
                    ChainNext([ch1 EXCEPT !.k = AfterExhausted(ch), !.fresh = TRUE])

\* HRTrackerData.__iter__ over an iterator that is not a list of the model:
\* the next() of the frame asks the iterator for a point unless the frame has
\* ended or _points is false.
AsksForPoint(d) ==
    d.pc \in {"new", "susp"} /\ (d.pc = "new" => PointsTruthy(d.points))

\* The next() of the frame, given what the iterator answered (c.res, c.item).
DataNextGiven(d, c) ==
    CASE c.res = "yield" -> DataNext([d EXCEPT !.points = Generator(<<c.item>>)])
      [] c.res = "stop" -> DataNext([d EXCEPT !.points = Generator(<<>>)])
      [] c.res = "raise" ->
           \* the exception leaves the for loop and ends the frame
           [d |-> [d EXCEPT !.pc = "raised"], res |-> "raise", item |-> NoDatum]

\* next() on the frame of the merged HRTrackerData.__iter__: the for loop asks
\* the chain for a point.
MergedDataNext(d, ch) ==
    IF ~AsksForPoint(d)
    THEN [d |-> DataNext(d).d, ch |-> ch, res |-> DataNext(d).res,
          item |-> NoDatum]
    ELSE LET c == ChainNext(ch)
             r == DataNextGiven(d, c)
         IN  [d |-> r.d, ch |-> c.ch, res |-> r.res, item |-> r.item]

\* next() on the frame of the identity wrapper's __iter__ over the merged
\* stream: for datum in self._tracker: yield datum
MergerStep(w, r) ==
    CASE r.res = "yield" ->
           [w |-> [w EXCEPT !.pc = "run", !.ys = Append(w.ys, r.item)],
            d |-> r.d, ch |-> r.ch, res |-> "yield", item |-> r.item]
      [] r.res = "stop" ->
           [w |-> [w EXCEPT !.pc = "done"], d |-> r.d, ch |-> r.ch,
            res |-> "stop", item |-> NoDatum]
      [] r.res = "raise" ->
           [w |-> [w EXCEPT !.pc = "raised"], d |-> r.d, ch |-> r.ch,
            res |-> "raise", item |-> NoDatum]

MergerNext(w, d, ch) ==
    IF w.pc \notin {"new", "run"}
    THEN [w |-> w, d |-> d, ch |-> ch, res |-> "stop", item |-> NoDatum]
    ELSE MergerStep(w, MergedDataNext(IF w.pc = "new" THEN DataIter(d) ELSE d, ch))

(***************************************************************************)
(* HeartPointConfig (lib/consumers.py).                                    *)
(* A float is held exactly, in thousandths: PyFloat(600) is 0.6.  Heart    *)
(* rates, cutoffs and their comparisons are in thousandths of a beat; the  *)
(* running total npoints is held in sixtieths of a point (dt / 60 * weight *)
(* is dt * weight sixtieths).  The arithmetic is exact: the rounding error *)
(* of binary floating point is not modelled.                               *)
(***************************************************************************)
PyFloat(milli) == [kind |-> "float", v |-> milli, s |-> <<>>]

IsNumber(val) == val.kind \in {"int", "float"}

\* The value of an int or a float, in thousandths.
Milli(val) == IF val.kind = "int" THEN val.v * 1000 ELSE val.v

\* int(x) of a number: a float is truncated towards zero.
IntOf(val) ==
    IF val.kind = "int" THEN val.v
    ELSE IF val.v >= 0 THEN val.v \div 1000 ELSE -((-val.v) \div 1000)

Constructed(cutoffs) ==
    [ok |-> TRUE, err |-> "", cutoffs |-> cutoffs, last_off |-> Len(cutoffs) - 1]
Rejected(err) == [ok |-> FALSE, err |-> err, cutoffs |-> <<>>, last_off |-> 0]
NoConfig == Rejected("")

\* hr_max > 0 and hr_max <= 220; a comparison with None or a str is a
\* TypeError.
HrMaxLimit == 220

HrMaxCheck(hr_max) ==
    IF ~IsNumber(hr_max) THEN "TypeError"
    ELSE IF Milli(hr_max) > 0 /\ Milli(hr_max) <= HrMaxLimit * 1000 THEN "" ELSE "ValueError"

\* _check_pct: val > 0.0 and val < 1.0
PctCheck(val) ==
    IF ~IsNumber(val) THEN "TypeError"
    ELSE IF Milli(val) > 0 /\ Milli(val) < 1000 THEN "" ELSE "ValueError"

\* get_cutoffs: int(hr_max) * float(pct), in thousandths.
get_cutoffs(hr_max, pcts) == [i \in 1..Len(pcts) |-> IntOf(hr_max) * Milli(pcts[i])]

\* HeartPointConfig(hr_max = ..., pct_mod = ..., pct_hi = ..., pct_xhi = ...):
\* the first check that fails raises.
HeartPointConfig(hr_max, pct_mod, pct_hi, pct_xhi) ==
    LET pcts == <<pct_mod, pct_hi, pct_xhi>>
        bad == {i \in 1..3 : PctCheck(pcts[i]) # ""}
        first == CHOOSE i \in bad : \A j \in bad : i <= j
    IN  IF HrMaxCheck(hr_max) # "" THEN Rejected(HrMaxCheck(hr_max))
        ELSE IF bad # {} THEN Rejected(PctCheck(pcts[first]))
        ELSE Constructed(get_cutoffs(hr_max, pcts))

\* The multiplier of the zone with offset cat.
ZoneWeight(cat) == cat + 1

\* _points_for_pair(x0, x1), in sixtieths of a point: the zones are tried from
\* offset _last_off down to 0 (cutoffs[cat + 1] here, sequences start at 1).
RECURSIVE PairFrom(_, _, _, _)
PairFrom(cfg, cat, dt, avg_hr) ==
    IF cat < 0 THEN 0
    ELSE IF avg_hr >= cfg.cutoffs[cat + 1] THEN dt * ZoneWeight(cat)
    ELSE PairFrom(cfg, cat - 1, dt, avg_hr)

\* The lowest zone whose cutoff is reached, tried from offset 0 upwards.
RECURSIVE PairFromLowest(_, _, _, _)
PairFromLowest(cfg, cat, dt, avg_hr) ==
    IF cat > cfg.last_off THEN 0
    ELSE IF avg_hr >= cfg.cutoffs[cat + 1] THEN dt * ZoneWeight(cat)
    ELSE PairFromLowest(cfg, cat + 1, dt, avg_hr)

points_for_pair_lowest(cfg, x0, x1) ==
    PairFromLowest(cfg, 0, x1.ts - x0.ts, ((x1.hr + x0.hr) * 1000) \div 2)

points_for_pair(cfg, x0, x1) ==
    PairFrom(cfg, cfg.last_off, x1.ts - x0.ts, ((x1.hr + x0.hr) * 1000) \div 2)

\* round(x) of x = n60 / 60: to the nearest integer, a tie to the even one.
Round(n60) ==
    LET q == n60 \div 60
        r == n60 % 60
    IN  IF 2 * r < 60 THEN q
        ELSE IF 2 * r > 60 THEN q + 1
        ELSE IF q % 2 = 0 THEN q ELSE q + 1

\* npoints += _points_for_pair(oldval, w)
AddPairRounded(npoints, pair) == npoints + 60 * Round(pair)

AddPair(npoints, pair) == npoints + pair

HeartPointObject(start, end, points, cals) ==
    [ok |-> TRUE, err |-> "", start |-> start, end |-> end, points |-> points,
     cals |-> cals]
Raised(err) ==
    [ok |-> FALSE, err |-> err, start |-> None, end |-> None, points |-> 0,
     cals |-> None]
NoResult == Raised("")

\* for w in workout: _vfunc(w); _vfunc = _nextval -- to the end of the workout.
\* st: the locals npoints, oldval and whether _vfunc is still _firstval.
RECURSIVE ScoreLoop(_, _, _, _)
\* One turn of the loop, r being what next() on the workout gave.
ScoreStep(cfg, st, r) ==
    CASE r.res = "yield" ->
           ScoreLoop(cfg,
                     [npoints |-> IF st.first THEN st.npoints
                                  ELSE AddPair(st.npoints,
                                               points_for_pair(cfg, st.oldval, r.item)),
                      oldval |-> r.item, first |-> FALSE],
                     r.w, r.d)
      [] OTHER -> [st |-> st, w |-> r.w, d |-> r.d, res |-> r.res]

ScoreLoop(cfg, st, w, d) == ScoreStep(cfg, st, WrapNext(w, d))

\* heart_points(workout) of a configuration: the record returned, or the
\* LookupError raised by the iteration or by reading start_time or end_time.
\* return HeartPointObject(workout.start_time, workout.end_time,
\* round(npoints), try_get_value(workout, 'cals', 0)), l being the loop's
\* outcome and st, en what reading the two times gave.
HeartPointsReturn(l, st, en) ==
    [out |-> IF l.res = "raise" THEN Raised("points")
             ELSE IF ~st.ok THEN Raised(st.err)
             ELSE IF ~en.ok THEN Raised(en.err)
             ELSE HeartPointObject(st.val, en.val, Round(l.st.npoints),
                                   try_get_value(WrapGet(l.w, l.d, "cals"), PyInt(0))),
     w |-> l.w, d |-> l.d]

HeartPointsAfter(l) ==
    HeartPointsReturn(l, WrapGet(l.w, l.d, "start_time"), WrapGet(l.w, l.d, "end_time"))

heart_points(cfg, w, d) ==
    HeartPointsAfter(ScoreLoop(cfg, [npoints |-> 0, oldval |-> NoDatum, first |-> TRUE],
                               WrapIter(w), d))

\* The state of a caller of HeartPointConfig:
\*   args   the arguments hr_max, pct_mod, pct_hi, pct_xhi
\*   pc     "none", "made" (the constructor has returned or raised), "scored"
\*          (heart_points has been called), "rescored" (and called again)
\*   cfg    the outcome of the constructor
\*   out    the outcome of heart_points(workout)
\*   src2, out2   the Samples of the second workout and its outcome
NoHeartPoints ==
    [args |-> <<>>, pc |-> "none", cfg |-> NoConfig, out |-> NoResult,
     src2 |-> <<>>, out2 |-> NoResult]

(***************************************************************************)
(* Text and bytes.  A str or a bytes object is a sequence of one-character *)
(* tokens, except that the literal Heart rate (and the other record names  *)
(* of a log) is one token; BadByte is a byte that is not valid UTF-8.      *)
(***************************************************************************)
BadByte == "0xFF"
Whitespace == {" ", "\n"}

IsText(bytes) == \A i \in 1..Len(bytes) : bytes[i] # BadByte

IsDigit(c) == \E i \in 1..10 : DigitChars[i] = c
DigitValue(c) == (CHOOSE i \in 1..10 : DigitChars[i] = c) - 1

RECURSIVE DigitsValue(_)
DigitsValue(chars) ==
    IF chars = <<>> THEN 0
    ELSE DigitsValue(SubSeq(chars, 1, Len(chars) - 1)) * 10
             + DigitValue(chars[Len(chars)])

\* str.strip()
RECURSIVE Strip(_)
Strip(chars) ==
    IF chars # <<>> /\ Head(chars) \in Whitespace THEN Strip(Tail(chars))
    ELSE IF chars # <<>> /\ chars[Len(chars)] \in Whitespace
         THEN Strip(SubSeq(chars, 1, Len(chars) - 1))
         ELSE chars

\* The digits of an int literal: the text stripped, without its sign.
IntDigits(chars) ==
    LET t == Strip(chars)
    IN  IF t # <<>> /\ Head(t) \in {"+", "-"} THEN Tail(t) ELSE t

\* int(text) returns (otherwise it raises ValueError), and its value.
IsIntText(chars) ==
    LET body == IntDigits(chars)
    IN  body # <<>> /\ \A i \in 1..Len(body) : IsDigit(body[i])

IntValue(chars) ==
    LET t == Strip(chars)
    IN  IF Head(t) = "-" THEN -DigitsValue(IntDigits(chars))
        ELSE DigitsValue(IntDigits(chars))

\* text.split(sep)
RECURSIVE Split(_, _)
Split(chars, sep) ==
    IF \A i \in 1..Len(chars) : chars[i] # sep THEN <<chars>>
    ELSE LET k == CHOOSE i \in 1..Len(chars) :
                      chars[i] = sep /\ \A j \in 1..(i - 1) : chars[j] # sep
         IN  <<SubSeq(chars, 1, k - 1)>> \o Split(SubSeq(chars, k + 1, Len(chars)), sep)

\* str(x) of a float x >= 0 given in thousandths: the whole part, a point, and
\* the decimals without trailing zeros (at least one).
FloatStr(milli) ==
    LET f == milli % 1000
        d == <<DigitChars[(f \div 100) + 1], DigitChars[((f \div 10) % 10) + 1],
               DigitChars[(f % 10) + 1]>>
        n == IF f % 10 # 0 THEN 3 ELSE IF f % 100 # 0 THEN 2 ELSE 1
    IN  NatStr(milli \div 1000) \o <<".">> \o SubSeq(d, 1, n)

\* str(x) of an int or a float, as an f-string formats it.
NumStr(val) == IF val.kind = "int" THEN IntStr(val.v) ELSE FloatStr(val.v)

\* f'{point[0]}000;;Heart rate;{point[1]}\n' of a point whose timestamp is an
\* int or a float.
LineOf(ts, hr) ==
    NumStr(ts) \o <<"0", "0", "0", ";", ";", "Heart rate", ";">> \o IntStr(hr)
        \o <<"\n">>

\* b''.join(lines)
RECURSIVE Join(_)
Join(lines) == IF lines = <<>> THEN <<>> ELSE Head(lines) \o Join(Tail(lines))

(***************************************************************************)
(* decode_stream and the decoders (lib/producers.py).  The byte source,    *)
(* the call of decode_stream and the frame of the decoder generator are    *)
(* one record:                                                             *)
(*   samples   history: the points a log was written from                  *)
(*   written   history: the byte source was written by PnnSgtLogfile       *)
(*   lines     the bytes of the source, line by line                       *)
(*   frames    what fitdecode.FitReader produces from the source           *)
(*   fitdecode the module fitdecode was imported                           *)
(*   filename  the filename argument                                       *)
(*   pos       the offset of the source; closed: it has been closed        *)
(*   reader_closes  fitdecode.FitReader closes a stream it was handed when *)
(*             its with block is left (the library's matter, either way)   *)
(*   pc        "unwritten", "none", "returned" (decode_stream returned a   *)
(*             stream), "raised" (CannotDecodeFileException)               *)
(*   kind      the generator the stream was given: "none", "fit", "pnn"    *)
(*   gpc       frame of the generator: "none", "new", "susp", "done",      *)
(*             "raised", "closed" (finalised at its yield)                 *)
(*   at        the number of lines (frames) the generator has read         *)
(*   out       history: the Datums the generator has yielded               *)
(***************************************************************************)
SniffLen == 64   \* stream.read(64)
MsPerSecond == 1000   \* int(data[0])/1000

NoDecoding ==
    [samples |-> <<>>, written |-> FALSE, lines |-> <<>>, frames |-> <<>>,
     fitdecode |-> FALSE, filename |-> None, pos |-> 0, closed |-> FALSE,
     reader_closes |-> FALSE,
     pc |-> "none", kind |-> "none", gpc |-> "none", at |-> 0, out |-> <<>>]

\* stream.read(n): the bytes from the offset on, at most n, and the offset after.
Read(dc, n) ==
    LET bytes == Join(dc.lines)
        end == IF dc.pos + n < Len(bytes) THEN dc.pos + n ELSE Len(bytes)
    IN  [data |-> SubSeq(bytes, dc.pos + 1, end), pos |-> end]

\* stream.seek(0)
SeekNowhere(pos) == pos

Seek0(pos) == 0

\* _is_fit_file(data) with the sniffed bytes: data[8:12] == b'.FIT'
is_fit_file(head) ==
    Len(head) >= 12 /\ SubSeq(head, 9, 12) = <<".", "F", "I", "T">>

\* datetime.fromtimestamp(time / 1000) returns: the year is at most 9999, which
\* holds of every time of at most 14 digits and of none of more than 15.
FromTimestampOk(chars) == Len(IntDigits(chars)) < 15

\* _is_pnn_sgt_file(data)
is_pnn_sgt_file(head) ==
    LET first_ln == Split(head, "\n")[1]
        field == Split(first_ln, ";")[1]
    IN  /\ IsText(first_ln)
        /\ IsIntText(field)
        /\ FromTimestampOk(field)

\* decode_stream(stream, filename): the branch taken.
DecoderFor(dc, first_64) ==
    IF dc.fitdecode /\ is_fit_file(first_64) THEN "fit"
    ELSE IF is_pnn_sgt_file(first_64) THEN "pnn"
    ELSE "none"

\* decode_stream(stream, filename): the source after the call.  The generator
\* is created; none of its body has run.
decode_stream(dc) ==
    LET r == Read(dc, SniffLen)
        kind == DecoderFor(dc, r.data)
    IN  [dc EXCEPT !.pos = Seek0(r.pos),
                   !.kind = kind,
                   !.gpc = IF kind = "none" THEN "none" ELSE "new",
                   !.pc = IF kind = "none" THEN "raised" ELSE "returned"]

\* re.search(r'#calories=([0-9]+)#', filename): the places where it matches,
\* and group(1) of the first.
CaloriesAt(chars) ==
    {i \in 1..Len(chars) :
        /\ chars[i] = "#calories="
        /\ \E k \in (i + 2)..Len(chars) :
              /\ chars[k] = "#"
              /\ \A j \in (i + 1)..(k - 1) : IsDigit(chars[j])}

CaloriesGroup(chars) ==
    LET i == CHOOSE a \in CaloriesAt(chars) : \A b \in CaloriesAt(chars) : a <= b
        k == CHOOSE c \in (i + 2)..Len(chars) :
                 chars[c] = "#" /\ \A j \in (i + 1)..(c - 1) : IsDigit(chars[j])
    IN  SubSeq(chars, i + 1, k - 1)

\* What a generator's next() gives its caller: res is "yield", "stop" or
\* "raise"; item is the Datum as the stream holds it (timestamp in seconds);
\* cals is the value the generator assigned to container.cals, if set.
Step(dc, res, item, set, cals) ==
    [dc |-> dc, res |-> res, item |-> item, set |-> set, cals |-> cals]

\* next() on the frame of _decode_pnn_sgt_file.
RECURSIVE PnnNext(_)
PnnNext(dc) ==
    IF dc.at >= Len(dc.lines)
    THEN \* stream.close(); the filename is searched for the calories
         LET d1 == [dc EXCEPT !.gpc = "done", !.closed = TRUE]
         IN  IF Truthy(dc.filename) /\ CaloriesAt(dc.filename.s) # {}
             THEN Step(d1, "stop", NoDatum, TRUE, PyStr(CaloriesGroup(dc.filename.s)))
             ELSE Step(d1, "stop", NoDatum, FALSE, None)
    ELSE LET line == dc.lines[dc.at + 1]
             d1 == [dc EXCEPT !.at = dc.at + 1, !.pos = dc.pos + Len(line)]
             xdata == IF IsText(line) THEN line ELSE <<>>
             fields == Split(xdata, ";")
         IN  IF Len(fields) # 4 \/ fields[3] # <<"Heart rate">> THEN PnnNext(d1)
             ELSE IF ~IsIntText(fields[1]) \/ ~IsIntText(fields[4])
             THEN \* int() raises ValueError
                  Step([d1 EXCEPT !.gpc = "raised"], "raise", NoDatum, FALSE, None)
             ELSE LET ms == IntValue(fields[1])
                      hr == IntValue(fields[4])
                  IN  Step([d1 EXCEPT !.gpc = "susp",
                                      !.out = Append(dc.out,
                                                     [ts |-> PyFloat(ms), hr |-> hr])],
                           "yield", [ts |-> ms \div MsPerSecond, hr |-> hr], FALSE, None)

\* A frame of the FIT reader: a 'record' message with its timestamp and
\* heart_rate fields (None when absent), a 'session' message with its
\* total_calories, or the point where the reader raises FitError.
FitRecord(ts, hr) == [name |-> "record", ts |-> ts, hr |-> hr, cals |-> None]
FitSession(cals) == [name |-> "session", ts |-> None, hr |-> None, cals |-> cals]
FitError == [name |-> "FitError", ts |-> None, hr |-> None, cals |-> None]

\* next() on the frame of _decode_fit_file.  One 'session' message is
\* processed per call at most: its assignment is handed to the caller.
RECURSIVE FitNext(_)
FitNext(dc) ==
    IF dc.at >= Len(dc.frames)
    THEN \* the with block is left
         Step([dc EXCEPT !.gpc = "done", !.closed = dc.reader_closes], "stop", NoDatum,
              FALSE, None)
    ELSE LET frame == dc.frames[dc.at + 1]
             d1 == [dc EXCEPT !.at = dc.at + 1]
         IN  CASE frame.name = "FitError" ->
                    \* except fitdecode.exceptions.FitError: pass
                    Step([d1 EXCEPT !.gpc = "done", !.closed = dc.reader_closes], "stop",
                         NoDatum, FALSE, None)
               [] frame.name = "session" ->
                    LET r == FitNext(d1)
                    IN  IF r.set THEN r ELSE Step(r.dc, r.res, r.item, TRUE, frame.cals)
               [] frame.name = "record" ->
                    IF Truthy(frame.ts) /\ Truthy(frame.hr)
                    THEN Step([d1 EXCEPT !.gpc = "susp",
                                         !.out = Append(dc.out,
                                                        [ts |-> frame.ts, hr |-> frame.hr.v])],
                              "yield", [ts |-> frame.ts.v, hr |-> frame.hr.v], FALSE, None)
                    ELSE FitNext(d1)

\* next() on the generator decode_stream gave the stream.
DecoderNext(dc) ==
    IF dc.gpc \notin {"new", "susp"} THEN Step(dc, "stop", NoDatum, FALSE, None)
    ELSE IF dc.kind = "fit" THEN FitNext(dc)
    ELSE PnnNext(dc)

\* The generator is finalised while suspended at its yield: GeneratorExit is
\* raised there.  _decode_pnn_sgt_file has no handler and never reaches
\* stream.close(); _decode_fit_file leaves its with block.
DecoderClose(dc) ==
    IF dc.gpc # "susp" THEN dc
    ELSE [dc EXCEPT !.gpc = "closed",
                    !.closed = IF dc.kind = "fit" THEN dc.reader_closes ELSE dc.closed]

\* data = HRTrackerData(); data.points = the generator.  _points is the
\* generator object, which is true; the Datums are held by the decoder.
DecodedData == HRTrackerData(Generator(<<>>), None)

\* next() on the frame of the decoded stream's __iter__: the for loop asks the
\* decoder for a point; the decoder may assign container.cals on the way.
DecodedDataNext(d, dc) ==
    IF ~AsksForPoint(d)
    THEN [d |-> DataNext(d).d, dc |-> dc, res |-> DataNext(d).res, item |-> NoDatum]
    ELSE LET c == DecoderNext(dc)
             r == DataNextGiven(IF c.set THEN DataSetCalsTo(d, c.cals) ELSE d, c)
         IN  [d |-> r.d, dc |-> c.dc, res |-> r.res, item |-> r.item]

(***************************************************************************)
(* Spec: an encoder over a filter or identity wrapper over a buffer-backed *)
(* stream, driven by one consumer.                                         *)
(***************************************************************************)
\* Calorie values the setter is given (0 is a legitimate estimate).
CalVals == {0, 2}

\* HRTrackerData() as decode_stream builds it: no calorie estimate.
InitCals == {None}

Wrappers ==
    {HRTrackerIdentityTransform}
        \cup {HRTrackerFilter(b[1], b[2]) : b \in {<<100, 220>>, <<0, 60>>}}

NewStreams(s) == {HRTrackerData(p, c) : p \in {Generator(s), List(s)}, c \in InitCals}

Init ==
    /\ src \in Streams
    /\ data \in NewStreams(src)
    /\ wrap \in Wrappers
    /\ enc = PnnSgtLogfile
    /\ split = HRTrackerSplitter(DefaultSplitAt)
    /\ merge = NoChain
    /\ hp = NoHeartPoints
    /\ dec = NoDecoding
    /\ top = "encoder"

\* The consumer calls iter() on the encoder.
StartEncoding ==
    /\ enc.pc # "new"
    /\ enc' = EncIter(enc)
    /\ UNCHANGED <<src, data, wrap, split, merge, hp, dec, top>>

\* The consumer calls next() on the encoder's iterator.
PullLine ==
    /\ enc.pc \in {"new", "susp"}
    /\ LET r == EncNext(enc, wrap, data)
       IN  /\ enc' = r.e
           /\ wrap' = r.w
           /\ data' = r.d
    /\ UNCHANGED <<src, split, merge, hp, dec, top>>

\* wrapper.cals = v
SetCalsOnWrapper(v) ==
    /\ LET r == WrapSetCalsTo(wrap, data, PyInt(v))
       IN  /\ wrap' = r.w
           /\ data' = r.d
    /\ UNCHANGED <<src, enc, split, merge, hp, dec, top>>

\* encoder.tracker = a wrapper of the same kind over a new generator-backed
\* stream, between two iterations.
SetTracker ==
    /\ enc.pc \in {"done", "raised"}
    /\ src' \in SeqsUpTo(Samples, MaxRewrapLen)
    /\ data' \in {HRTrackerData(Generator(src'), c) : c \in InitCals}
    /\ wrap' = [wrap EXCEPT !.own = NoAttrs, !.pc = "none", !.ys = <<>>,
                         !.written = None]
    /\ enc' = EncSetTracker(enc)
    /\ UNCHANGED <<split, merge, hp, dec, top>>

Next ==
    \/ StartEncoding
    \/ PullLine
    \/ \E v \in CalVals : SetCalsOnWrapper(v)
    \/ SetTracker

Spec == Init /\ [][Next]_vars

(***************************************************************************)
(* Properties of the buffer-backed stream.                                 *)
(***************************************************************************)
\* C1, as stated: before the first iteration of a buffer-backed stream has run to
\* completion, reading start_time, end_time or cals fails with LookupError.
C1_Original ==
    data.ndone = 0 => \A n \in AttrNames : ~DataGet(data, n).ok

\* C1, amended: before the first completed iteration start_time and end_time fail
\* with LookupError; cals does not depend on iteration and fails as long as no
\* calorie value has been given to the stream.
C1_TimesUnavailableBeforeCompletion ==
    data.ndone = 0 =>
        /\ ~DataGet(data, "start_time").ok
        /\ ~DataGet(data, "end_time").ok
        /\ (data.cals = None => ~DataGet(data, "cals").ok)

\* A stream partially iterated and abandoned: a Sample was yielded, the frame is
\* suspended, and the consumer has asked for a new iterator.
C1_Witness ==
    /\ data.ndone = 0
    /\ data.pc = "susp"
    /\ data.ys # <<>>
    /\ data.cur.ts > 0
    /\ enc.pc = "new"

\* C2: after cals is assigned 0, reading cals returns 0 and does not raise
\* LookupError.
C2_ZeroCalsReadable ==
    data.cals = PyInt(0) => DataGet(data, "cals") = Returned(PyInt(0))

\* C3, as stated: a second iteration of an exhausted generator-backed stream
\* yields no Samples and ends normally.
C3_Original ==
    (data.backing = "gen" /\ data.after /\ data.pc \notin {"none", "new"}) =>
        (data.ys = <<>> /\ data.pc = "done")

\* C3, amended: a second iteration of an exhausted generator-backed stream yields
\* no Samples and ends with LookupError ('points not ready').
C3_ReiterationRaises ==
    (data.backing = "gen" /\ data.after) =>
        (data.ys = <<>> /\ data.pc \in {"new", "raised"})

C3_Witness ==
    /\ data.backing = "gen"
    /\ data.after
    /\ data.pc = "raised"
    /\ src # <<>>

MinTs(seq) == CHOOSE t \in {seq[i].ts : i \in 1..Len(seq)} :
                  \A i \in 1..Len(seq) : t <= seq[i].ts

MaxTsOf(seq) == CHOOSE t \in {seq[i].ts : i \in 1..Len(seq)} :
                    \A i \in 1..Len(seq) : t >= seq[i].ts

\* C14: after a buffer-backed stream has been iterated to completion over a
\* non-empty Sample sequence, in any timestamp order, start_time is the least
\* and end_time the greatest timestamp among the Samples yielded.
C14_TimesAreMinMax ==
    (data.pc = "done" /\ data.ys # <<>>) =>
        /\ DataGet(data, "start_time") = Returned(PyInt(MinTs(data.ys)))
        /\ DataGet(data, "end_time") = Returned(PyInt(MaxTsOf(data.ys)))

(***************************************************************************)
(* Properties of the log encoder.                                          *)
(***************************************************************************)
\* The filename the specification documents, from integers of milliseconds.
DocumentedFilename(start_ms, elapsed_ms, cals) ==
    <<"#date=">> \o IntStr(start_ms) \o <<"#", "time=">> \o IntStr(elapsed_ms)
        \o <<"#", "calories=">> \o IntStr(cals)
        \o <<"#", "type=HeartRate#spmax=0#version=4.txt">>

\* C4: once the encoder has been iterated to the end over a stream that produced
\* a Sample, start_time, elapsed_time, cals and filename are readable and
\* filename has the documented form.
C4_ReadableAfterDrain ==
    (enc.pc \in {"done", "raised"} /\ enc.has_pt) =>
        /\ \A n \in EncNames : EncGet(enc, n).ok
        /\ enc.filename.s =
             DocumentedFilename(enc.start.v * 1000, enc.elapsed.v * 1000, enc.cals.v)

\* C5: a derived field of the encoder is readable only when the present tracker
\* has been drained and produced a Sample.
C5_ReadableOnlyAfterDrain ==
    (\E n \in EncNames : EncGet(enc, n).ok) => enc.drained = "points"

\* C6: after tracker is assigned, and until the new stream has been drained,
\* reading start_time, elapsed_time, cals or filename raises LookupError.
C6_SetTrackerResets ==
    (enc.rewrapped /\ enc.drained = "no") => \A n \in EncNames : ~EncGet(enc, n).ok

(***************************************************************************)
(* Properties of the filter and identity wrappers.                         *)
(***************************************************************************)
InBounds(lo, hi, seq) == SelectSeq(seq, LAMBDA x : lo <= x.hr /\ x.hr <= hi)

\* C7: a filter yields exactly the Samples of its tracker whose heart rate is in
\* [hr_min, hr_max], in order; drained over a list, those of the whole list.
C7_FilterYieldsSubsequence ==
    wrap.kind = "filter" =>
        /\ wrap.pc \in {"run", "done", "raised"} =>
             wrap.ys = InBounds(wrap.hr_min, wrap.hr_max, data.ys)
        /\ (wrap.pc = "done" /\ data.backing = "list") =>
             wrap.ys = InBounds(wrap.hr_min, wrap.hr_max, src)

\* A drained filter that rejected some Samples and kept others.
C7_Witness ==
    /\ wrap.kind = "filter"
    /\ wrap.pc = "done"
    /\ wrap.ys # <<>>
    /\ Len(wrap.ys) < Len(data.ys)

\* C8: after a filter has been iterated to completion, its start_time and
\* end_time are the timestamps of the first and last Samples that survived
\* (stated for the streams whose timestamps are all positive).
C8_TimesOfSurvivors ==
    (/\ wrap.kind = "filter" /\ wrap.pc = "done" /\ wrap.ys # <<>>
     /\ \A i \in 1..Len(data.ys) : data.ys[i].ts > 0) =>
        /\ WrapGet(wrap, data, "start_time") = Returned(PyInt(wrap.ys[1].ts))
        /\ WrapGet(wrap, data, "end_time") = Returned(PyInt(wrap.ys[Len(wrap.ys)].ts))

SplitStreams == SeqsUpTo(Samples, MaxSplitLen)

SplitInit ==
    /\ src \in SplitStreams
    /\ data \in NewStreams(src)
    /\ wrap \in Wrappers
    /\ enc = PnnSgtLogfile
    /\ split \in {HRTrackerSplitter(t) : t \in 0..MaxSplit}
    /\ merge = NoChain
    /\ hp = NoHeartPoints
    /\ dec = NoDecoding
    /\ top = "splitter"

\* The consumer calls iter() on the splitter.
StartSplitting ==
    /\ split.pc # "new"
    /\ split' = SplitIter(split)
    /\ UNCHANGED <<src, data, wrap, enc, merge, hp, dec, top>>

\* The consumer calls next() on the splitter's iterator.
PullChunk ==
    /\ split.pc \in {"new", "susp", "last"}
    /\ LET r == SplitNext(split, wrap, data)
       IN  /\ split' = r.sp
           /\ wrap' = r.w
           /\ data' = r.d
    /\ UNCHANGED <<src, enc, merge, hp, dec, top>>

SplitNextStep ==
    \/ StartSplitting
    \/ PullChunk

SplitSpec == SplitInit /\ [][SplitNextStep]_vars

(***************************************************************************)
(* Properties of the splitter.                                             *)
(***************************************************************************)
RECURSIVE ConcatChunks(_)
ConcatChunks(chunks) ==
    IF chunks = <<>> THEN <<>>
    ELSE ChunkSamples(Head(chunks)) \o ConcatChunks(Tail(chunks))

\* C10: the Samples of the chunks yielded by the splitter, concatenated in yield
\* order, are the Samples the splitter's tracker produced: all of them once the
\* last chunk has been yielded, and before that all but the Sample that opens
\* the next chunk.
C10_SplitterCoverage ==
    /\ split.pc \in {"last", "done"} =>
         /\ ConcatChunks(split.chunks) = wrap.ys
         /\ (wrap.kind = "identity" /\ data.backing = "list") =>
              ConcatChunks(split.chunks) = src
    /\ split.pc = "susp" => ConcatChunks(split.chunks) \o <<split.cur>> = wrap.ys

\* The splitter has yielded its last chunk after a chunk of two Samples.
C10_Witness ==
    /\ split.pc = "done"
    /\ Len(split.chunks) >= 2
    /\ Len(ChunkSamples(split.chunks[1])) >= 2
    /\ split.split_at > 0

NonDecreasing(seq) == \A i \in 1..(Len(seq) - 1) : seq[i].ts <= seq[i + 1].ts

\* C11: over an input with non-decreasing timestamps and split_at > 0, every
\* Sample of a chunk has a timestamp below the timestamp of the chunk's first
\* Sample plus split_at, and every chunk after the first opens with a Sample at
\* or after the first timestamp of the previous chunk plus split_at.
C11_ChunkWindows ==
    (split.split_at > 0 /\ NonDecreasing(src)) =>
        \A k \in 1..Len(split.chunks) :
            LET c == ChunkSamples(split.chunks[k])
                prev == IF k > 1 THEN ChunkSamples(split.chunks[k - 1]) ELSE <<>>
            IN  /\ \A i \in 1..Len(c) : c[i].ts < c[1].ts + split.split_at
                /\ (c # <<>> /\ prev # <<>>) =>
                     c[1].ts >= prev[1].ts + split.split_at

\* C12: reading cals on a chunk yielded by the splitter raises LookupError, and
\* a consumer asking with a default gets the default, both before and after the
\* chunk is iterated.
C12_ChunkCalsUnknown ==
    \A k \in 1..Len(split.chunks) :
        LET chunk == split.chunks[k]
            drained == Drain(DataIter(chunk))
        IN  /\ ~DataGet(chunk, "cals").ok
            /\ try_get_value(DataGet(chunk, "cals"), PyInt(0)) = PyInt(0)
            /\ ~DataGet(drained, "cals").ok
            /\ try_get_value(DataGet(drained, "cals"), PyInt(0)) = PyInt(0)

\* C25: with split_at > 0, iterating a chunk the splitter has yielded raises no
\* LookupError, and a chunk is empty only if the splitter's tracker has produced
\* no Sample.
C25_ChunksDrainable ==
    split.split_at > 0 =>
        \A k \in 1..Len(split.chunks) :
            /\ Drain(DataIter(split.chunks[k])).pc # "raised"
            /\ ChunkSamples(split.chunks[k]) = <<>> => wrap.ys = <<>>

(***************************************************************************)
(* MergeSpec: a merger over buffer-backed streams, driven by one consumer. *)
(***************************************************************************)
MaxInputs == 2     \* most streams given to a merger
MaxMergeLen == 3   \* most Samples in the streams given to a merger, together

MergeSamples == {s \in Samples : s.hr = 60}

\* The tuples of n Sample sequences of at most len Samples together.
RECURSIVE SourcesOf(_, _)
SourcesOf(n, len) ==
    IF n = 0 THEN {<<>>}
    ELSE UNION {{<<s>> \o t : t \in SourcesOf(n - 1, len - Len(s))} :
                  s \in SeqsUpTo(MergeSamples, len)}

MergeSources == UNION {SourcesOf(n, MaxMergeLen) : n \in 1..MaxInputs}

\* The trackers over the given Samples: each generator-backed or list-backed.
TrackersOver(t) ==
    {[i \in 1..Len(t) |-> HRTrackerData(IF b[i] = "gen" THEN Generator(t[i]) ELSE List(t[i]),
                                        None)] :
        b \in [1..Len(t) -> {"gen", "list"}]}

\* merged = HRTrackerMerger over the trackers
MergeInit ==
    /\ \E t \in MergeSources : \E trackers \in TrackersOver(t) : merge = Chain(trackers)
    /\ src = <<>>
    /\ data = MergedData
    /\ wrap = HRTrackerIdentityTransform
    /\ enc = PnnSgtLogfile
    /\ split = HRTrackerSplitter(DefaultSplitAt)
    /\ hp = NoHeartPoints
    /\ dec = NoDecoding
    /\ top = "merger"

\* The consumer calls iter() on the merged stream.
StartMerged ==
    /\ wrap.pc # "new"
    /\ wrap' = WrapIter(wrap)
    /\ merge' = [merge EXCEPT !.again = (wrap.pc # "none")]
    /\ UNCHANGED <<src, data, enc, split, hp, dec, top>>

\* The consumer calls next() on the merged stream's iterator.
PullMerged ==
    /\ wrap.pc \in {"new", "run"}
    /\ LET r == MergerNext(wrap, data, merge)
       IN  /\ wrap' = r.w
           /\ data' = r.d
           /\ merge' = r.ch
    /\ UNCHANGED <<src, enc, split, hp, dec, top>>

MergeNextStep ==
    \/ StartMerged
    \/ PullMerged

MergeSpec == MergeInit /\ [][MergeNextStep]_vars

(***************************************************************************)
(* Properties of the merger.                                               *)
(***************************************************************************)
RECURSIVE ConcatAll(_)
ConcatAll(seqs) == IF seqs = <<>> THEN <<>> ELSE Head(seqs) \o ConcatAll(Tail(seqs))

IsPrefix(p, s) == Len(p) <= Len(s) /\ SubSeq(s, 1, Len(p)) = p

MaxHeartLen == 3   \* longest workout scored

\* Arguments of the constructor: in range, on and beyond the limits, and of
\* the wrong kind.
HrMaxArgs ==
    {PyInt(0), PyInt(100), PyInt(220), PyInt(221), PyFloat(100500),
     PyStr(<<"1", "0", "0">>), None}
PctArgs == {PyFloat(0), PyFloat(500), PyFloat(900), PyFloat(1000), PyInt(1), None}

\* Workouts sampled on half minutes.
HeartTimes == {0, 30, 60}
HeartSamples == [ts : HeartTimes, hr : HeartRates]
Workouts == SeqsUpTo(HeartSamples, MaxHeartLen)

HeartInit ==
    /\ \E a \in HrMaxArgs \X PctArgs \X PctArgs \X PctArgs :
           hp = [NoHeartPoints EXCEPT !.args = a]
    /\ src = <<>>
    /\ data = HRTrackerData(NoPoints, None)
    /\ wrap = HRTrackerIdentityTransform
    /\ enc = PnnSgtLogfile
    /\ split = HRTrackerSplitter(DefaultSplitAt)
    /\ merge = NoChain
    /\ dec = NoDecoding
    /\ top = "heart_points"

\* cfg = HeartPointConfig(hr_max = ..., pct_mod = ..., pct_hi = ..., pct_xhi = ...)
Construct ==
    /\ hp.pc = "none"
    /\ hp' = [hp EXCEPT !.pc = "made",
                        !.cfg = HeartPointConfig(hp.args[1], hp.args[2], hp.args[3],
                                                 hp.args[4])]
    /\ UNCHANGED <<src, data, wrap, enc, split, merge, dec, top>>

\* cfg.heart_points(workout) over a new stream on which cals was never set.
ScoreWorkout ==
    /\ hp.pc = "made"
    /\ hp.cfg.ok
    /\ src' \in Workouts
    /\ \E stream \in NewStreams(src') :
         LET r == heart_points(hp.cfg, HRTrackerIdentityTransform, stream)
         IN  /\ hp' = [hp EXCEPT !.pc = "scored", !.out = r.out]
             /\ wrap' = r.w
             /\ data' = r.d
    /\ UNCHANGED <<enc, split, merge, dec, top>>

\* The workouts with the timestamps of s and heart rates at least as high.
RaisedWorkouts(s) ==
    {[i \in 1..Len(s) |-> [ts |-> s[i].ts, hr |-> h[i]]] :
        h \in {g \in [1..Len(s) -> HeartRates] : \A i \in 1..Len(s) : g[i] >= s[i].hr}}

\* cfg.heart_points(workout2), the heart rates of the first workout raised.
ScoreRaisedWorkout ==
    /\ hp.pc = "scored"
    /\ \E s2 \in RaisedWorkouts(src) :
         LET stream == HRTrackerData(IF data.backing = "gen" THEN Generator(s2)
                                     ELSE List(s2), None)
             r == heart_points(hp.cfg, HRTrackerIdentityTransform, stream)
         IN  hp' = [hp EXCEPT !.pc = "rescored", !.src2 = s2, !.out2 = r.out]
    /\ UNCHANGED <<src, data, wrap, enc, split, merge, dec, top>>

HeartNextStep ==
    \/ Construct
    \/ ScoreWorkout
    \/ ScoreRaisedWorkout

HeartSpec == HeartInit /\ [][HeartNextStep]_vars

(***************************************************************************)
(* Properties of the heart-points consumer.                                *)
(***************************************************************************)
\* C15: the constructor succeeds if and only if hr_max is an integer with
\* 0 < hr_max <= 220 and each of pct_mod, pct_hi, pct_xhi is strictly between 0
\* and 1; otherwise it raises, and the cutoffs of a configuration are those of
\* the arguments as given (nothing is clamped).
C15_ConstructionValidates ==
    hp.pc # "none" =>
        LET valid == /\ hp.args[1].kind = "int"
                     /\ 0 < hp.args[1].v /\ hp.args[1].v <= 220
                     /\ \A i \in 2..4 : /\ IsNumber(hp.args[i])
                                        /\ 0 < Milli(hp.args[i])
                                        /\ Milli(hp.args[i]) < 1000
        IN  /\ hp.cfg.ok <=> valid
            /\ ~hp.cfg.ok => hp.cfg.err \in {"ValueError", "TypeError"}
            /\ hp.cfg.ok =>
                 hp.cfg.cutoffs = [i \in 1..3 |-> hp.args[1].v * Milli(hp.args[i + 1])]

\* The weight of a pair by the definition of the zones: z + 1 for the highest
\* zone z in {0, 1, 2} whose cutoff the average heart rate reaches, 0 if none.
DocumentedWeight(cutoffs, x0, x1) ==
    LET zones == {z \in 0..2 : (x0.hr + x1.hr) * 1000 >= 2 * cutoffs[z + 1]}
    IN  IF zones = {} THEN 0
        ELSE 1 + CHOOSE z \in zones : \A y \in zones : y <= z

RECURSIVE DocumentedSixtieths(_, _)
DocumentedSixtieths(cutoffs, xs) ==
    IF Len(xs) < 2 THEN 0
    ELSE (xs[2].ts - xs[1].ts) * DocumentedWeight(cutoffs, xs[1], xs[2])
             + DocumentedSixtieths(cutoffs, Tail(xs))

\* The integer nearest to n60 / 60, the even one of two equally near.
IsNearest(p, n60) ==
    /\ 2 * (60 * p - n60) <= 60
    /\ 2 * (n60 - 60 * p) <= 60
    /\ (2 * (60 * p - n60) = 60 \/ 2 * (n60 - 60 * p) = 60) => p % 2 = 0

\* C16: the points heart_points returns for a workout x_0..x_n are the sum over
\* the consecutive pairs of ((t_{i+1} - t_i) / 60) * w_i, rounded once.
C16_PointsFormula ==
    (hp.pc \in {"scored", "rescored"} /\ hp.out.ok) =>
        IsNearest(hp.out.points, DocumentedSixtieths(hp.cfg.cutoffs, wrap.ys))

\* A workout of three Samples was scored whose two pairs are worth half a point
\* each: the total is 1, and the pairs rounded one by one would give 0.
C16_Witness ==
    /\ hp.pc = "scored"
    /\ hp.out.ok
    /\ Len(wrap.ys) = 3
    /\ hp.out.points = 1
    /\ DocumentedSixtieths(hp.cfg.cutoffs, wrap.ys) = 60
    /\ DocumentedWeight(hp.cfg.cutoffs, wrap.ys[1], wrap.ys[2]) = 1
    /\ DocumentedWeight(hp.cfg.cutoffs, wrap.ys[2], wrap.ys[3]) = 1

\* C17, as stated: of two workouts with identical timestamps, the second with
\* heart rates at least as high, the second scores at least as many points.
C17_Original ==
    (hp.pc = "rescored" /\ hp.out.ok /\ hp.out2.ok) =>
        hp.out2.points >= hp.out.points

\* C17, amended: the same, for workouts whose timestamps are non-decreasing.
C17_MonotoneOnOrdered ==
    (hp.pc = "rescored" /\ NonDecreasing(src) /\ hp.out.ok /\ hp.out2.ok) =>
        hp.out2.points >= hp.out.points

\* Both workouts were scored, in time order, and the second scored more under
\* cutoffs that are not ascending.
C17_Witness ==
    /\ hp.pc = "rescored"
    /\ NonDecreasing(src)
    /\ hp.out.ok /\ hp.out2.ok
    /\ hp.out2.points > hp.out.points
    /\ hp.cfg.cutoffs[1] > hp.cfg.cutoffs[2]

\* C18: heart_points on a workout of exactly one Sample (t, h), cals never set,
\* returns points 0, start t, end t and cals 0.
C18_SingleSample ==
    (hp.pc = "scored" /\ Len(src) = 1) =>
        hp.out = HeartPointObject(PyInt(src[1].ts), PyInt(src[1].ts), 0, PyInt(0))

(***************************************************************************)
(* DecodeSpec: a byte source, given or written by the log encoder, is      *)
(* handed to decode_stream and the decoded stream is iterated by one       *)
(* consumer.                                                               *)
(***************************************************************************)
MaxLogLen == 2     \* most points a log is written from
MaxRawLines == 3   \* most lines of a byte source that is given

\* The points a log is written from: timestamps that are ints, and floats as
\* the plaintext decoder makes them (1.0, 1.5).
LogSamples ==
    [ts : {PyInt(0), PyInt(1), PyInt(2), PyFloat(1000), PyFloat(1500)}, hr : {60}]

\* Lines of a byte source: a Heart rate line, a line of another record, a
\* line of fewer fields, a Heart rate line of five fields, a line that is not
\* text, a Heart rate line whose
\* value is no integer, the header of a FIT file, a first field of digits
\* followed at byte 8 by .FIT, and (alone in its source) a timestamp beyond
\* the year 9999.
HrLine == LineOf(PyInt(1), 60)
CadenceLine == <<"2", "0", "0", "0", ";", ";", "Cadence", ";", "9", "0", "\n">>
ShortLine == <<"x", "\n">>
LongLine == <<"4", "0", "0", "0", ";", ";", "Heart rate", ";", "6", "0", ";", "\n">>
BadLine == <<BadByte, "\n">>
BadValueLine == <<"3", "0", "0", "0", ";", ";", "Heart rate", ";", "z", "\n">>
FitHeader == <<"h", "h", "h", "h", "h", "h", "h", "h", ".", "F", "I", "T">>
DigitsThenFit == <<"1", "2", "3", "4", "5", "6", "7", ";", ".", "F", "I", "T", "\n">>
FarLine ==
    <<"9", "9", "9", "9", "9", "9", "9", "9", "9", "9", "9", "9", "9", "9", "9",
      "9", "9", "9", ";", ";", "Heart rate", ";", "6", "0", "\n">>

RawLines ==
    {HrLine, CadenceLine, ShortLine, LongLine, BadLine, BadValueLine, FitHeader,
     DigitsThenFit}
RawFiles == SeqsUpTo(RawLines, MaxRawLines) \cup {<<FarLine>>}

\* What the FIT reader produces from a source that carries the FIT marker.
FitFrameSeqs ==
    {<<>>,
     <<FitRecord(PyInt(1), PyInt(60)), FitSession(PyInt(2))>>,
     <<FitRecord(None, PyInt(60)), FitRecord(PyInt(2), PyInt(60))>>,
     <<FitRecord(PyInt(1), PyInt(60)), FitError, FitRecord(PyInt(2), PyInt(60))>>}

FramesOf(lines) ==
    IF is_fit_file(Join(lines)) THEN FitFrameSeqs ELSE {<<>>}

Filenames == {None, PyStr(<<"log.txt">>), PyStr(<<"#calories=", "0", "#">>)}

\* What FitReader may do to the stream when its with block is left; it is asked
\* only of a source the FIT decoder is given.
ReaderCloses(lines, lib) ==
    IF lib /\ is_fit_file(Join(lines)) THEN BOOLEAN ELSE {FALSE}

DecodeInit ==
    /\ \E f \in Filenames, lib \in BOOLEAN :
         \/ \E lines \in RawFiles : \E frames \in FramesOf(lines) :
              \E rc \in ReaderCloses(lines, lib) :
                dec = [NoDecoding EXCEPT !.lines = lines, !.frames = frames,
                                         !.filename = f, !.fitdecode = lib,
                                         !.reader_closes = rc]
         \/ \E samples \in SeqsUpTo(LogSamples, MaxLogLen) :
              dec = [NoDecoding EXCEPT !.samples = samples, !.pc = "unwritten",
                                       !.filename = f, !.fitdecode = lib]
    /\ src = <<>>
    /\ data = HRTrackerData(NoPoints, None)
    /\ wrap = HRTrackerIdentityTransform
    /\ enc = PnnSgtLogfile
    /\ split = HRTrackerSplitter(DefaultSplitAt)
    /\ merge = NoChain
    /\ hp = NoHeartPoints
    /\ top = "decoder"

\* A consumer drains PnnSgtLogfile over a stream of the points and writes the
\* lines to the byte source.
WriteLog ==
    /\ dec.pc = "unwritten"
    /\ dec' = [dec EXCEPT !.pc = "none", !.written = TRUE,
                          !.lines = [i \in 1..Len(dec.samples) |->
                                       LineOf(dec.samples[i].ts, dec.samples[i].hr)]]
    /\ UNCHANGED <<src, data, wrap, enc, split, merge, hp, top>>

\* data = decode_stream(stream, filename)
DecodeStream ==
    /\ dec.pc = "none"
    /\ dec' = decode_stream(dec)
    /\ data' = IF dec'.pc = "returned" THEN DecodedData ELSE data
    /\ UNCHANGED <<src, wrap, enc, split, merge, hp, top>>

\* The consumer calls iter() on the decoded stream, unless it let go of it.
StartDecoded ==
    /\ dec.pc = "returned"
    /\ data.pc \notin {"new", "closed"}
    /\ data' = DataIter(data)
    /\ UNCHANGED <<src, wrap, enc, split, merge, hp, dec, top>>

\* The consumer calls next() on the decoded stream's iterator.
PullDecoded ==
    /\ dec.pc = "returned"
    /\ data.pc \in {"new", "susp"}
    /\ LET r == DecodedDataNext(data, dec)
       IN  /\ data' = r.d
           /\ dec' = r.dc
    /\ UNCHANGED <<src, wrap, enc, split, merge, hp, top>>

\* The consumer stops in the middle of the iteration and lets go of the
\* iterator and the stream: the frame of HRTrackerData.__iter__ and the decoder
\* generator are finalised at their yields.
AbandonDecoded ==
    /\ dec.pc = "returned"
    /\ data.pc = "susp"
    /\ data' = [data EXCEPT !.pc = "closed"]
    /\ dec' = DecoderClose(dec)
    /\ UNCHANGED <<src, wrap, enc, split, merge, hp, top>>

DecodeNextStep ==
    \/ WriteLog
    \/ DecodeStream
    \/ StartDecoded
    \/ PullDecoded
    \/ AbandonDecoded

DecodeSpec == DecodeInit /\ [][DecodeNextStep]_vars

(***************************************************************************)
(* Properties of the decoder.                                              *)
(***************************************************************************)
\* A timestamp truncated to whole seconds.
WholeSeconds(ts) == IF ts.kind = "int" THEN ts.v ELSE ts.v \div 1000

\* C19: a log written by PnnSgtLogfile from any sequence of points is decoded
\* without error; once the decoder has come to its end it has yielded the
\* points written, each timestamp truncated to whole seconds.
C19_RoundTrip ==
    dec.written =>
        /\ dec.pc # "raised"
        /\ dec.gpc # "raised"
        /\ dec.gpc = "done" =>
             /\ Len(dec.out) = Len(dec.samples)
             /\ \A i \in 1..Len(dec.samples) :
                  /\ Milli(dec.out[i].ts) = WholeSeconds(dec.samples[i].ts) * 1000
                  /\ dec.out[i].hr = dec.samples[i].hr

\* The sniffs as the specification words them, on the first 64 bytes.
BinarySniff(dc) == is_fit_file(Read([dc EXCEPT !.pos = 0], SniffLen).data)
PlaintextSniff(dc) == is_pnn_sgt_file(Read([dc EXCEPT !.pos = 0], SniffLen).data)

\* C20, as stated: decode_stream raises CannotDecodeFileException exactly when
\* neither sniff matches, and otherwise returns a stream; either way the byte
\* source is at offset 0 and no record has been decoded.
C20_Original ==
    (dec.pc \in {"returned", "raised"} /\ data.pc = "none") =>
        /\ dec.pc = "raised" <=> (~BinarySniff(dec) /\ ~PlaintextSniff(dec))
        /\ dec.pos = 0
        /\ dec.at = 0 /\ dec.out = <<>> /\ dec.gpc \in {"none", "new"}

\* C20, amended: the binary sniff counts only when the module fitdecode was
\* imported; without it a source that passes the binary sniff alone is refused.
C20_SniffDecides ==
    (dec.pc \in {"returned", "raised"} /\ data.pc = "none") =>
        /\ dec.pc = "raised" <=>
             (~(dec.fitdecode /\ BinarySniff(dec)) /\ ~PlaintextSniff(dec))
        /\ dec.pos = 0
        /\ dec.at = 0 /\ dec.out = <<>> /\ dec.gpc \in {"none", "new"}

\* decode_stream has refused a source of two lines that carries the FIT marker,
\* fitdecode being absent.
C20_Witness ==
    /\ dec.pc = "raised"
    /\ ~dec.fitdecode
    /\ BinarySniff(dec)
    /\ Len(dec.lines) = 2
    /\ dec.pos = 0

\* A line the plaintext format counts as a heart rate record: text of exactly
\* four fields separated by ';', the third of them Heart rate.
IsHeartRateLine(line) ==
    /\ IsText(line)
    /\ Len(Split(line, ";")) = 4
    /\ Split(line, ";")[3] = <<"Heart rate">>

\* Such a line whose timestamp and value are integers.
IsValidRecord(line) ==
    /\ IsHeartRateLine(line)
    /\ IsIntText(Split(line, ";")[1])
    /\ IsIntText(Split(line, ";")[4])

\* The Sample of a valid record: (timestamp_ms / 1000, value).
DocumentedSample(line) ==
    [ts |-> PyFloat(IntValue(Split(line, ";")[1])), hr |-> IntValue(Split(line, ";")[4])]

\* The lines the plaintext decoder has read so far.
LinesRead == SubSeq(dec.lines, 1, dec.at)

\* C21: the plaintext decoder has yielded one Sample for each heart rate line it
\* has read, in source order, (timestamp_ms / 1000, value) when both are
\* integers, and nothing for any other line.
C21_LineSkipping ==
    dec.kind = "pnn" =>
        LET hl == SelectSeq(LinesRead, IsHeartRateLine)
        IN  /\ Len(dec.out) = Len(hl)
            /\ \A i \in 1..Len(hl) :
                 (i <= Len(dec.out) /\ IsValidRecord(hl[i])) =>
                     dec.out[i] = DocumentedSample(hl[i])

\* The frames the FIT decoder has read that are complete records.
RecordsRead ==
    SelectSeq(SubSeq(dec.frames, 1, dec.at),
              LAMBDA f : f.name = "record" /\ f.ts # None /\ f.hr # None)

\* C22: no error leaves the decoder, and the decoder has yielded the valid
\* records among what it has read, in source order, whatever malformed records
\* came before them.
C22_MalformedDropped ==
    dec.pc = "returned" =>
        /\ dec.gpc # "raised"
        /\ dec.kind = "pnn" =>
             LET valid == SelectSeq(LinesRead, IsValidRecord)
             IN  dec.out = [i \in 1..Len(valid) |-> DocumentedSample(valid[i])]
        /\ dec.kind = "fit" =>
             dec.out = [i \in 1..Len(RecordsRead) |->
                          [ts |-> RecordsRead[i].ts, hr |-> RecordsRead[i].hr.v]]

\* C23: once the iteration of a decoded stream is over -- the decoder has come
\* to its end, an error has left it, or its consumer has abandoned it -- the
\* byte source is closed.
C23_SourceReleased ==
    (dec.pc = "returned" /\ dec.gpc \in {"done", "raised", "closed"}) => dec.closed

(***************************************************************************)
(* PipeSpec: every pipeline above -- a terminal consumer driving the log   *)
(* encoder, the splitter, the merger or a decoded stream.                  *)
(***************************************************************************)
PipeInit ==
    \/ Init
    \/ SplitInit
    \/ MergeInit
    \/ DecodeInit

PipeNextStep ==
    \/ top = "encoder" /\ StartEncoding
    \/ top = "encoder" /\ PullLine
    \/ top = "encoder" /\ \E v \in CalVals : SetCalsOnWrapper(v)
    \/ top = "encoder" /\ SetTracker
    \/ top = "splitter" /\ StartSplitting
    \/ top = "splitter" /\ PullChunk
    \/ top = "merger" /\ StartMerged
    \/ top = "merger" /\ PullMerged
    \/ top = "decoder" /\ WriteLog
    \/ top = "decoder" /\ DecodeStream
    \/ top = "decoder" /\ StartDecoded
    \/ top = "decoder" /\ PullDecoded
    \/ top = "decoder" /\ AbandonDecoded

PipeSpec == PipeInit /\ [][PipeNextStep]_vars

(***************************************************************************)
(* Properties of the pipelines.                                            *)
(***************************************************************************)
Last(seq) == seq[Len(seq)]

\* The Samples a buffer-backed stream d has taken from its buffer s.
Taken(d, s) ==
    CASE d.points.kind = "list" -> d.idx
      [] d.points.kind = "gen" -> Len(s) - Len(d.points.items)
      [] OTHER -> Len(s)

RECURSIVE TakenByChain(_, _)
TakenByChain(ch, n) ==
    IF n = 0 THEN 0
    ELSE Taken(ch.ins[n], ch.srcs[n]) + TakenByChain(ch, n - 1)

\* What the lowest stage of the pipeline has been asked for so far: Samples of
\* the buffers, or lines (frames) of the byte source.
PulledBelow ==
    CASE top \in {"encoder", "splitter"} -> Taken(data, src)
      [] top = "merger" -> TakenByChain(merge, Len(merge.ins))
      [] OTHER -> dec.at

\* A step in which the lowest stage is asked for more is a next() of the
\* terminal consumer.
TakesOnRequest ==
    PulledBelow' > PulledBelow => (PullLine \/ PullChunk \/ PullMerged \/ PullDecoded)

\* A stream suspended at its yield holds the Sample it took last.
StreamHoldsLastTaken ==
    (top \in {"encoder", "splitter"} /\ data.pc = "susp") =>
        /\ Taken(data, src) >= 1
        /\ src[Taken(data, src)] = data.cur
        /\ Last(data.ys) = data.cur

\* A filter or identity wrapper suspended at its yield is emitting the Sample
\* its tracker is suspended on.
WrapperHoldsLastTaken ==
    wrap.pc = "run" =>
        /\ data.pc = "susp"
        /\ wrap.ys # <<>>
        /\ Last(wrap.ys) = data.cur

\* The encoder suspended at its yield is emitting the line of the Sample its
\* tracker is suspended on.
EncoderHoldsLastTaken ==
    enc.pc = "susp" =>
        /\ wrap.pc = "run"
        /\ Last(enc.lines) = Line(Last(wrap.ys))

\* The splitter suspended at the yield in its loop holds one Sample besides
\* the chunks it has yielded, the one its tracker is suspended on; at the
\* yield after the loop it holds none.
SplitterHoldsOneAhead ==
    /\ split.pc = "susp" =>
         /\ wrap.pc = "run"
         /\ split.cur = Last(wrap.ys)
         /\ Len(wrap.ys) = Len(ConcatChunks(split.chunks)) + 1
    /\ split.pc \in {"last", "done"} =>
         /\ wrap.pc = "done"
         /\ Len(wrap.ys) = Len(ConcatChunks(split.chunks))

\* The merged stream suspended at its yield is emitting the Sample the present
\* argument of the chain is suspended on, and no later argument has been
\* touched.
MergerHoldsLastTaken ==
    top = "merger" =>
        /\ data.pc = "susp" =>
             /\ merge.k <= Len(merge.ins)
             /\ merge.ins[merge.k].pc = "susp"
             /\ merge.ins[merge.k].cur = data.cur
        /\ \A j \in (merge.k + 1)..Len(merge.ins) :
             /\ merge.ins[j].pc = "none"
             /\ Taken(merge.ins[j], merge.srcs[j]) = 0

\* A decoded stream suspended at its yield is emitting the Sample of the line
\* (frame) the decoder read last; before its first next() the decoder has read
\* nothing.
DecoderHoldsLastTaken ==
    top = "decoder" =>
        /\ dec.gpc \in {"none", "new"} => (dec.at = 0 /\ dec.out = <<>>)
        /\ data.pc = "susp" =>
             /\ dec.gpc = "susp"
             /\ dec.at >= 1
             /\ Last(dec.out).hr = data.cur.hr
             /\ dec.kind = "pnn" =>
                  /\ IsValidRecord(dec.lines[dec.at])
                  /\ DocumentedSample(dec.lines[dec.at]) = Last(dec.out)
             /\ dec.kind = "fit" =>
                  /\ dec.frames[dec.at].name = "record"
                  /\ dec.frames[dec.at].ts = Last(dec.out).ts

HoldsOnlyEmitted ==
    /\ StreamHoldsLastTaken
    /\ WrapperHoldsLastTaken
    /\ EncoderHoldsLastTaken
    /\ SplitterHoldsOneAhead
    /\ MergerHoldsLastTaken
    /\ DecoderHoldsLastTaken

\* C24: the pipeline is pull-based.  When the stages have been constructed
\* nothing has been taken from the lowest stage; the lowest stage is asked for
\* more only in a step in which the terminal consumer asks for its next item;
\* and a stage suspended at its yield holds no Sample it took from below
\* besides the one it is emitting (the splitter: besides its chunks and the one
\* Sample that opens the next chunk).
C24_PullBased == (PulledBelow = 0) /\ []HoldsOnlyEmitted /\ [][TakesOnRequest]_vars

\* A splitter over a filter is suspended at the yield in its loop: the filter
\* has dropped a Sample on the way and the splitter holds the one Sample ahead.
C24_Witness ==
    /\ top = "splitter"
    /\ split.pc = "susp"
    /\ wrap.kind = "filter"
    /\ Len(data.ys) > Len(wrap.ys)
    /\ Len(split.chunks) = 1
    /\ PulledBelow = Len(data.ys)

=============================================================================
